---- MODULE Spec2Model ----
(***************************************************************************)
(* socket-igo: a named-event bus over websocket connections.               *)
(*                                                                         *)
(* Server half (Go): IgoServer (the Hub), Client (a Peer), Room.           *)
(* Client half (TypeScript): IgoClient, the reconnecting bus.              *)
(*                                                                         *)
(* The variables `last', `emitted', `written', `invoked', `hooked' and      *)
(* `first' observe what the step just taken did (which Emit calls it made, *)
(* which frames it wrote, which listeners and Room callbacks it called);   *)
(* they are not fields of the program.  The Hub's own hooks (pre-connect,  *)
(* connected, disconnected, error) stay nil, as CreateIgoServer leaves     *)
(* them.                                                                   *)
(***************************************************************************)
EXTENDS Integers, Sequences, FiniteSets, TLC

\* ---------------------------------------------------------------- bounds
MaxMembers == 3
MaxNest == 1
MaxAcks == 2
MaxHandlers == 2
MaxFrames == 3

\* ---------------------------------------------------------------- inputs
\* The Peers, in the order IgoServer.Handle creates them.
PeerOrder == <<"A", "B">>
Peers == {PeerOrder[i] : i \in 1..Len(PeerOrder)}
NoPeer == "-"
Rooms == {"lobby"}
EventNames == {"x", "y"}
Payloads == {[k |-> 1], [k |-> 2]}
\* data["ackId"] == nil
Nil == "<nil>"
AckIds == {Nil, "", "abc"}
\* User listeners: "h" only returns a value; "hRe" dispatches the event it
\* was called for once more, from inside itself, before it returns.
Listeners == {"h", "hRe"}

Frames == [event : EventNames, data : Payloads, ackId : AckIds]

\* Decoded frames that are not of the shape {event: string, data: object,
\* ackId?: string}: no `event', a `data' that is no object, an `ackId' that
\* is no string.
NotAnObject == [k |-> -1]
NotAString == "<number>"
MalformedFrames ==
    { [event |-> Nil, data |-> [k |-> 1], ackId |-> Nil],
      [event |-> "x", data |-> NotAnObject, ackId |-> Nil],
      [event |-> "x", data |-> [k |-> 1], ackId |-> NotAString] }

NoListener == [h |-> "none", once |-> FALSE]
NoRoom == ""

Range(s) == {s[i] : i \in 1..Len(s)}

\* (mutant) every entry equal to c is removed.
RemoveEvery(s, c) == SelectSeq(s, LAMBDA x : x # c)

\* The find-and-remove loops of wsReader and Client.Leave: drop the first
\* entry equal to c, keep the others in order.
RemoveFirst(s, c) ==
    IF \E i \in 1..Len(s) : s[i] = c
    THEN LET i == CHOOSE j \in 1..Len(s) : s[j] = c /\ \A m \in 1..(j - 1) : s[m] # c
         IN  SubSeq(s, 1, i - 1) \o SubSeq(s, i + 1, Len(s))
    ELSE s

\* ------------------------------------------------------------ server state
\* panicked: a goroutine of the server has panicked, which ends the process.
VARIABLES Clients, roomClients, joinedHandler, leftHandler, Events, socket, reader,
          panicked, last, emitted, written, invoked, hooked, first

srvVars == <<Clients, roomClients, joinedHandler, leftHandler, Events, socket, reader,
             panicked, last, emitted, written, invoked, hooked, first>>

\* ------------------------------------------------------------ client state
\* busSocket is `_socket': "null", or the readyState of the WebSocket it
\* holds.  busTimers counts the pending setTimeout callbacks.  busOrphans
\* counts the WebSockets that connect() has replaced in `_socket' while they
\* were not closed.  promises[n] is
\* the promise the n-th emitWithAck call returned.  bLast, bSent and bCalled
\* observe the step just taken (frames sent, hooks and handlers called).
VARIABLES busSocket, busId, busHandlers, busHooks, busTimers, busOrphans, promises,
          nextCall, bLast, bSent, bCalled

busVars == <<busSocket, busId, busHandlers, busHooks, busTimers, busOrphans, promises,
             nextCall, bLast, bSent, bCalled>>

\* ------------------------------------------------- steps inside a handler
\* The goroutines of the server at the grain of their memory accesses and
\* blocking calls, and the two directions of one connection.
\* loaded[p]: the slice value a goroutine working for Peer p has read from
\* IgoServer.Clients and not yet stored back; found[p]: the index at which
\* p's receive loop found p in its range over Clients.
\* inbox[p]: frames sent on p's connection that ReadMessage has not returned
\* yet; reads[p]: how many ReadMessage has returned; handling[p]: the frames
\* returned for which handleClientData has not returned; served[p]: the
\* frames for which it has, in that order.
\* fate[n]: what the Peer did with the request of emitWithAck call n;
\* back: frames the Peer has written that the client has not received yet.
VARIABLES loaded, found, inbox, reads, handling, served, fate, back

fineVars == <<loaded, found, inbox, reads, handling, served, fate, back>>

vars == <<srvVars, fineVars, busVars>>

\* ------------------------------------------------------------ client.go
\* The value a user listener returns for a payload.
Result(h, data) == IF h = "h" THEN 10 + data.k ELSE 20 + data.k

\* Client.Emit: one frame {event, data} written to the Peer's connection;
\* WriteJSON on a closed connection returns an error and writes nothing.
ClientEmit(st, eventName, data) ==
    IF st.socket = "open"
    THEN [st EXCEPT !.written = Append(@, [event |-> eventName, data |-> data])]
    ELSE st

\* (mutant) the correlation id is left out of the reply's name.
AckEventNoId(eventName, ackId) == eventName \o "@ack:"

AckEvent(eventName, ackId) == eventName \o "@ack:" \o ackId

AckResponse(result) == [result |-> result]

\* The unchecked type assertions data["event"].(string),
\* data["data"].(map[string]interface{}) and data["ackId"].(string).
TypeAssertionPanics(frame) ==
    \/ frame.event = Nil
    \/ frame.data = NotAnObject
    \/ frame.ackId = NotAString

AckIdOf(frame) == IF frame.ackId # Nil THEN frame.ackId ELSE ""

RECURSIVE handleClientData(_, _, _, _)

\* A call of the user listener h with (client, frame.data).
CallListener(client, st, h, frame, depth) ==
    LET called == [st EXCEPT !.invoked =
                       Append(@, [client |-> client, h |-> h, data |-> frame.data,
                                  depth |-> depth])]
    IN  IF h = "hRe" /\ depth < MaxNest
        THEN handleClientData(client, called, [frame EXCEPT !.ackId = Nil], depth + 1)
        ELSE called

\* (mutant) the entry is deleted after the listener has returned.
OnceWrapperDeleteLate(client, st, eventName, h, frame, depth) ==
    [CallListener(client, st, h, frame, depth) EXCEPT !.Events[eventName] = NoListener]

\* The closure Once stores: delete the entry, then call the listener.
OnceWrapper(client, st, eventName, h, frame, depth) ==
    CallListener(client, [st EXCEPT !.Events[eventName] = NoListener], h, frame, depth)

\* (mutant) a name without a binding falls back to any bound listener.
LookupFallback(events, eventName) ==
    IF events[eventName] # NoListener \/ \A e \in EventNames : events[e] = NoListener
    THEN events[eventName]
    ELSE events[CHOOSE e \in EventNames : events[e] # NoListener]

\* The lookup `listener, ok := client.Events[eventName]'.
Lookup(events, eventName) == events[eventName]

\* (mutant) a request for an event without listener is answered with an
\* empty result.
NotBoundReplies(client, st, frame) ==
    IF AckIdOf(frame) # ""
    THEN ClientEmit(st, AckEvent(frame.event, AckIdOf(frame)), AckResponse(0))
    ELSE st

\* `if listener, ok := client.Events[eventName]; ok' has no else branch.
NotBound(client, st, frame) == st

handleClientData(client, st, frame, depth) ==
    LET eventName == frame.event
        ackId == AckIdOf(frame)
        listener == Lookup(st.Events, eventName)
    IN  IF listener # NoListener
        THEN LET after == IF listener.once
                          THEN OnceWrapper(client, st, eventName, listener.h, frame, depth)
                          ELSE CallListener(client, st, listener.h, frame, depth)
                 result == Result(listener.h, frame.data)
             IN  IF ackId # ""
                 THEN ClientEmit(after, AckEvent(eventName, ackId), AckResponse(result))
                 ELSE after
        ELSE NotBound(client, st, frame)

\* The reserved first message of a connection (spec.md, section 6).
HandshakeFrame(p) == [event |-> "#handshake", data |-> [clientId |-> p]]

\* `first' keeps, for each connection, whether the first frame ever written
\* to it was its handshake.
FirstAfter(w) ==
    [p \in Peers |->
        IF first[p] = "none" /\ w[p] # <<>>
        THEN IF w[p][1] = HandshakeFrame(p) THEN "handshake" ELSE "other"
        ELSE first[p]]

NoWrites == [p \in Peers |-> <<>>]

Op(op, client, room, frame) ==
    [op |-> op, client |-> client, room |-> room, frame |-> frame]

NoInput == [event |-> "", data |-> [k |-> 0], ackId |-> Nil]

Created(p) == socket[p] # "none"

\* ------------------------------------------------- unnamed/part_001 (client)
BusEvents == {"x"}
BusListeners == {"g"}
ClientIds == {"c1", "c2"}
AckResults == {5, 6}
Calls == 1..MaxAcks

\* The correlation id of the n-th emitWithAck call: the two Math.random
\* strings, taken to be fresh at each call.
CorrelationId(n) == "r" \o ToString(n)

AckName(event, n) == event \o "@ack:" \o CorrelationId(n)

NoData == [k |-> 0]
NoPromise == [state |-> "none", value |-> 0, resolves |-> 0, sent |-> FALSE]

\* The frames a server can deliver: the handshake, an event, and the reply
\* to a request that was sent.
BusFrames ==
    [event : {"#handshake"}, data : [clientId : ClientIds]]
        \cup [event : BusEvents, data : Payloads]
        \cup [event : {AckName(e, n) : e \in BusEvents, n \in Calls}, data : [result : AckResults]]

\* off: indexOf and splice.
BusOff(handlers, event, handler) ==
    IF event \notin DOMAIN handlers
    THEN handlers
    ELSE [handlers EXCEPT ![event] = RemoveFirst(@, handler)]

\* on: push, on a new list if the event has none.
BusOn(handlers, event, handler) ==
    [e \in DOMAIN handlers \cup {event} |->
        IF e = event
        THEN IF event \in DOMAIN handlers THEN Append(handlers[event], handler) ELSE <<handler>>
        ELSE handlers[e]]

\* The closures the registry holds: a function given to on, the onceHandler
\* of once around a function, and the onceHandler of emitWithAck around the
\* resolve of its n-th promise.
UserHandler(h) == [kind |-> "on", h |-> h, n |-> 0]
OnceHandler(h) == [kind |-> "once", h |-> h, n |-> 0]
AckHandler(n) == [kind |-> "once", h |-> "resolve", n |-> n]

\* resolve(v) of a promise: settles it if it is pending.
Resolve(promise, v) ==
    IF promise.state = "pending"
    THEN [promise EXCEPT !.state = "resolved", !.value = v, !.resolves = @ + 1]
    ELSE [promise EXCEPT !.resolves = @ + 1]

\* A call handler(data) of a function given to on or once, or of
\* `data => resolve(data.result)'.
BusInvoke(st, handler, data) ==
    LET called == [st EXCEPT !.called = Append(@, [what |-> handler.h, n |-> handler.n,
                                                      data |-> data])]
    IN  IF handler.h = "resolve"
        THEN [called EXCEPT !.promises[handler.n] = Resolve(@, data.result)]
        ELSE called

\* (mutant) a onceHandler that does not remove itself.
BusCallKeep(st, event, handler, data) == BusInvoke(st, handler, data)

\* A call of one registry entry: the function itself, or onceHandler, which
\* calls the function and then removes itself.
BusCall(st, event, handler, data) ==
    IF handler.kind = "once"
    THEN [BusInvoke(st, handler, data) EXCEPT !.handlers = BusOff(@, event, handler)]
    ELSE BusInvoke(st, handler, data)

RECURSIVE RunHandlers(_, _, _, _)
\* `for (const handler of this._handlers[eventName])': the array iterator
\* reads the list as it is at each turn.
RunHandlers(st, event, i, data) ==
    IF i > Len(st.handlers[event])
    THEN st
    ELSE RunHandlers(BusCall(st, event, st.handlers[event][i], data), event, i + 1, data)

\* WebSocket.send by readyState: CONNECTING throws InvalidStateError, OPEN
\* transmits, CLOSING and CLOSED discard the data without an error.
SendThrows(readyState) == readyState = "CONNECTING"
SendTransmits(readyState) == readyState = "OPEN"

\* (mutant) a handshake is taken whatever identity the bus holds.
HandshakeNeverRejected(id) == FALSE

\* `if (this._id !== "")': a handshake that arrives while the bus holds an
\* identity is logged and dropped.
HandshakeRejected(id) == id # ""

\* (mutant) onClose schedules two reconnections.
SetTimeoutTwice(timers) == timers + 2

\* (mutant) onClose schedules nothing.
SetTimeoutDropped(timers) == timers

\* setTimeout(() => this.connect(), this._reconnectTimeout)
SetTimeout(timers) == timers + 1

BusOp(op, n, threw, event, data) ==
    [op |-> op, n |-> n, threw |-> threw, event |-> event, data |-> data]

\* The state the IgoClient constructor leaves: connect() has run.
InitBus ==
    /\ busSocket = "CONNECTING"
    /\ busId = ""
    /\ busHandlers = [e \in {} |-> <<>>]
    /\ busHooks = [pre |-> FALSE, conn |-> FALSE, disc |-> FALSE]
    /\ busTimers = 0
    /\ busOrphans = 0
    /\ promises = [n \in Calls |-> NoPromise]
    /\ nextCall = 1
    /\ bLast = BusOp("new", 0, FALSE, "", NoData)
    /\ bSent = <<>>
    /\ bCalled = <<>>

\* No slice value held.
NoSlice == <<NoPeer>>

\* Nothing in flight, nothing read.
InitFine ==
    /\ loaded = [p \in Peers |-> NoSlice]
    /\ found = [p \in Peers |-> 0]
    /\ inbox = [p \in Peers |-> <<>>]
    /\ reads = [p \in Peers |-> 0]
    /\ handling = [p \in Peers |-> {}]
    /\ served = [p \in Peers |-> <<>>]
    /\ fate = [n \in Calls |-> "unread"]
    /\ back = {}

\* --------------------------------------------------------------- Init
Init ==
    /\ Clients = <<>>
    /\ roomClients = [r \in Rooms |-> <<>>]
    /\ joinedHandler = [r \in Rooms |-> FALSE]
    /\ leftHandler = [r \in Rooms |-> FALSE]
    /\ hooked = <<>>
    /\ Events = [p \in Peers |-> [e \in EventNames |-> NoListener]]
    /\ socket = [p \in Peers |-> "none"]
    /\ reader = [p \in Peers |-> "none"]
    /\ panicked = FALSE
    /\ last = Op("init", NoPeer, NoRoom, NoInput)
    /\ emitted = <<>>
    /\ written = NoWrites
    /\ invoked = <<>>
    /\ first = [p \in Peers |-> "none"]
    /\ InitFine
    /\ InitBus

\* --------------------------------------------------------------- server.go
\* The Emit calls of a broadcast loop over the list `targets'.
EmitCalls(targets, eventName, data) ==
    [i \in 1..Len(targets) |-> [client |-> targets[i], event |-> eventName, data |-> data]]

\* What a sequence of Emit calls writes, connection by connection.
WritesOf(calls) ==
    [p \in Peers |->
        LET mine == SelectSeq(calls, LAMBDA c : c.client = p /\ socket[p] = "open")
        IN  [i \in 1..Len(mine) |-> [event |-> mine[i].event, data |-> mine[i].data]]]

\* IgoServer.Emit and Room.Emit: every entry of the list.
EmitTargets(list) == list

\* (mutant) only the first entry equal to `client' is skipped.
EmitExceptFirstOnly(list, client) == RemoveFirst(list, client)

\* IgoServer.EmitExcept and Room.EmitExcept: every entry that is not `client'.
EmitExceptTargets(list, client) == SelectSeq(list, LAMBDA c : c # client)

Broadcast(op, client, room, targets, eventName, data) ==
    LET calls == EmitCalls(targets, eventName, data)
    IN  /\ emitted' = calls
        /\ written' = WritesOf(calls)
        /\ first' = FirstAfter(WritesOf(calls))
        /\ invoked' = <<>>
        /\ last' = Op(op, client, room, [event |-> eventName, data |-> data, ackId |-> Nil])
        /\ hooked' = <<>>
        /\ ~panicked
        /\ UNCHANGED <<Clients, roomClients, joinedHandler, leftHandler, Events, socket, reader>>
        /\ UNCHANGED <<panicked, fineVars, busVars>>

\* A step of the running server that calls no Emit and no listener.
Quiet(op, client, room, frame) ==
    /\ ~panicked
    /\ UNCHANGED panicked
    /\ last' = Op(op, client, room, frame)
    /\ emitted' = <<>>
    /\ written' = NoWrites
    /\ invoked' = <<>>
    /\ UNCHANGED first
    /\ UNCHANGED <<fineVars, busVars>>

\* A step that calls no Room callback and binds none.
NoHooks ==
    /\ hooked' = <<>>
    /\ UNCHANGED <<joinedHandler, leftHandler>>

\* ------------------------------------------------------------- actions
\* IgoServer.Handle, the upgrade having succeeded: a new Peer.
Handle ==
    \E p \in Peers :
        /\ Cardinality({q \in Peers : Created(q)}) < Len(PeerOrder)
        /\ p = PeerOrder[Cardinality({q \in Peers : Created(q)}) + 1]
        /\ Clients' = Append(Clients, p)
        /\ socket' = [socket EXCEPT ![p] = "open"]
        /\ reader' = [reader EXCEPT ![p] = "running"]
        /\ Quiet("Handle", p, NoRoom, NoInput)
        /\ NoHooks
        /\ UNCHANGED <<roomClients, Events>>

\* wsReader, one turn of the loop in which ReadMessage returns a frame that
\* decodes to {event, data, ackId}: handleClientData.
wsReaderMessage ==
    \E p \in Peers, frame \in Frames :
        /\ ~panicked
        /\ reader[p] = "running"
        /\ socket[p] = "open"
        /\ ~TypeAssertionPanics(frame)
        /\ LET st == handleClientData(p,
                         [Events |-> Events[p], socket |-> socket[p],
                          written |-> <<>>, invoked |-> <<>>],
                         frame, 0)
               w == [NoWrites EXCEPT ![p] = st.written]
           IN  /\ Events' = [Events EXCEPT ![p] = st.Events]
               /\ written' = w
               /\ first' = FirstAfter(w)
               /\ invoked' = st.invoked
               /\ emitted' = <<>>
               /\ last' = Op("message", p, NoRoom, frame)
        /\ NoHooks
        /\ UNCHANGED <<Clients, roomClients, socket, reader>>
        /\ UNCHANGED <<panicked, fineVars, busVars>>

\* wsReader, a turn in which the frame decodes to a value that is not of the
\* frame shape: a type assertion of handleClientData panics in the reader's
\* goroutine, where nothing recovers it.
wsReaderPanic ==
    \E p \in Peers, frame \in MalformedFrames :
        /\ ~panicked
        /\ reader[p] = "running"
        /\ socket[p] = "open"
        /\ TypeAssertionPanics(frame)
        /\ panicked' = TRUE
        /\ last' = Op("malformed", p, NoRoom, frame)
        /\ emitted' = <<>>
        /\ written' = NoWrites
        /\ invoked' = <<>>
        /\ NoHooks
        /\ UNCHANGED <<Clients, roomClients, Events, socket, reader, first>>
        /\ UNCHANGED <<fineVars, busVars>>

\* (mutant) the loop ends at a decode failure.
DecodeFailureBreaks(state) == "done"

\* `continue' after a decode failure: the reader goes on to its next turn.
DecodeFailureContinues(state) == state

\* wsReader, a turn in which ReadMessage returns a frame that json.Unmarshal
\* rejects: errHandler, which is nil, is not called; continue.
wsReaderDecodeError ==
    \E p \in Peers :
        /\ reader[p] = "running"
        /\ socket[p] = "open"
        /\ reader' = [reader EXCEPT ![p] = DecodeFailureContinues(@)]
        /\ Quiet("decodeError", p, NoRoom, NoInput)
        /\ NoHooks
        /\ UNCHANGED <<Clients, roomClients, Events, socket>>

\* wsReader, the turn in which ReadMessage returns an error: the teardown.
wsReaderError ==
    \E p \in Peers :
        /\ reader[p] = "running"
        /\ Clients' = RemoveFirst(Clients, p)
        /\ socket' = [socket EXCEPT ![p] = "closed"]
        /\ reader' = [reader EXCEPT ![p] = "done"]
        /\ Quiet("readError", p, NoRoom, NoInput)
        /\ NoHooks
        /\ UNCHANGED <<roomClients, Events>>

\* Client.Close
Close ==
    \E p \in Peers :
        /\ socket[p] = "open"
        /\ socket' = [socket EXCEPT ![p] = "closed"]
        /\ Quiet("Close", p, NoRoom, NoInput)
        /\ NoHooks
        /\ UNCHANGED <<Clients, roomClients, Events, reader>>

\* Client.On
On ==
    \E p \in Peers, e \in EventNames, h \in Listeners :
        /\ Created(p)
        /\ Events' = [Events EXCEPT ![p][e] = [h |-> h, once |-> FALSE]]
        /\ Quiet("On", p, NoRoom, NoInput)
        /\ NoHooks
        /\ UNCHANGED <<Clients, roomClients, socket, reader>>

\* Client.Once
Once ==
    \E p \in Peers, e \in EventNames, h \in Listeners :
        /\ Created(p)
        /\ Events' = [Events EXCEPT ![p][e] = [h |-> h, once |-> TRUE]]
        /\ Quiet("Once", p, NoRoom, NoInput)
        /\ NoHooks
        /\ UNCHANGED <<Clients, roomClients, socket, reader>>

\* Client.Off
Off ==
    \E p \in Peers, e \in EventNames :
        /\ Created(p)
        /\ Events' = [Events EXCEPT ![p][e] = NoListener]
        /\ Quiet("Off", p, NoRoom, NoInput)
        /\ NoHooks
        /\ UNCHANGED <<Clients, roomClients, socket, reader>>

\* Client.Join
Join ==
    \E p \in Peers, r \in Rooms :
        /\ Created(p)
        /\ Len(roomClients[r]) < MaxMembers
        /\ roomClients' = [roomClients EXCEPT ![r] = Append(@, p)]
        /\ hooked' = IF joinedHandler[r] THEN << [hook |-> "joined", room |-> r, client |-> p] >>
                      ELSE <<>>
        /\ Quiet("Join", p, r, NoInput)
        /\ UNCHANGED <<joinedHandler, leftHandler>>
        /\ UNCHANGED <<Clients, Events, socket, reader>>

\* Client.Leave
Leave ==
    \E p \in Peers, r \in Rooms :
        /\ Created(p)
        /\ roomClients' = [roomClients EXCEPT ![r] = RemoveFirst(@, p)]
        /\ hooked' = IF leftHandler[r] THEN << [hook |-> "left", room |-> r, client |-> p] >>
                      ELSE <<>>
        /\ Quiet("Leave", p, r, NoInput)
        /\ UNCHANGED <<joinedHandler, leftHandler>>
        /\ UNCHANGED <<Clients, Events, socket, reader>>

\* Room.OnClientJoined
OnClientJoined ==
    \E r \in Rooms :
        /\ joinedHandler' = [joinedHandler EXCEPT ![r] = TRUE]
        /\ hooked' = <<>>
        /\ Quiet("OnClientJoined", NoPeer, r, NoInput)
        /\ UNCHANGED <<Clients, roomClients, leftHandler, Events, socket, reader>>

\* Room.OnClientLeft
OnClientLeft ==
    \E r \in Rooms :
        /\ leftHandler' = [leftHandler EXCEPT ![r] = TRUE]
        /\ hooked' = <<>>
        /\ Quiet("OnClientLeft", NoPeer, r, NoInput)
        /\ UNCHANGED <<Clients, roomClients, joinedHandler, Events, socket, reader>>

\* IgoServer.Emit
ServerEmit ==
    \E e \in EventNames, d \in Payloads :
        Broadcast("ServerEmit", NoPeer, NoRoom, EmitTargets(Clients), e, d)

\* IgoServer.EmitExcept
ServerEmitExcept ==
    \E c \in Peers, e \in EventNames, d \in Payloads :
        /\ Created(c)
        /\ Broadcast("ServerEmitExcept", c, NoRoom, EmitExceptTargets(Clients, c), e, d)

\* Room.Emit
RoomEmit ==
    \E r \in Rooms, e \in EventNames, d \in Payloads :
        Broadcast("RoomEmit", NoPeer, r, EmitTargets(roomClients[r]), e, d)

\* Room.EmitExcept
RoomEmitExcept ==
    \E r \in Rooms, c \in Peers, e \in EventNames, d \in Payloads :
        /\ Created(c)
        /\ Broadcast("RoomEmitExcept", c, r, EmitExceptTargets(roomClients[r], c), e, d)

\* Client.Emit, called by the application on one Peer.
PeerEmit ==
    \E p \in Peers, e \in EventNames, d \in Payloads :
        /\ Created(p)
        /\ Broadcast("PeerEmit", p, NoRoom, <<p>>, e, d)

\* The Hub, its Rooms and the Peers' lifecycle.
Next ==
    \/ Handle
    \/ wsReaderError
    \/ Close
    \/ Join
    \/ Leave
    \/ OnClientJoined
    \/ OnClientLeft
    \/ ServerEmit
    \/ ServerEmitExcept
    \/ RoomEmit
    \/ RoomEmitExcept

Spec == Init /\ [][Next]_vars

\* The Peers' registries and receive loops.
NextPeer ==
    \/ Handle
    \/ wsReaderMessage
    \/ wsReaderPanic
    \/ wsReaderDecodeError
    \/ wsReaderError
    \/ Close
    \/ On
    \/ Once
    \/ Off
    \/ PeerEmit

SpecPeer == Init /\ [][NextPeer]_vars

\* ------------------------------------------------- client bus: actions
\* A step of the bus that calls no hook and no handler and sends nothing.
BusQuiet(op) ==
    /\ bLast' = BusOp(op, 0, FALSE, "", NoData)
    /\ bSent' = <<>>
    /\ bCalled' = <<>>
    /\ UNCHANGED <<srvVars, fineVars>>

HookCall(name) == [what |-> name, n |-> 0, data |-> NoData]

\* IgoClient.emit
emit ==
    \E e \in BusEvents, d \in Payloads :
        /\ bLast' = BusOp("emit", 0, busSocket = "null" \/ SendThrows(busSocket), "", NoData)
        /\ bSent' = IF busSocket # "null" /\ SendTransmits(busSocket)
                    THEN << [event |-> e, data |-> d, ackId |-> Nil] >>
                    ELSE <<>>
        /\ bCalled' = <<>>
        /\ UNCHANGED <<busSocket, busId, busHandlers, busHooks, busTimers, busOrphans, promises, nextCall>>
        /\ UNCHANGED <<srvVars, fineVars>>

\* IgoClient.emitWithAck: the executor of the promise.  An exception thrown
\* by send inside the executor rejects the promise.
emitWithAck ==
    \E e \in BusEvents, d \in Payloads :
        /\ nextCall <= MaxAcks
        /\ LET n == nextCall
           IN  /\ nextCall' = n + 1
               /\ bLast' = BusOp("emitWithAck", n, FALSE, e, NoData)
               /\ bCalled' = <<>>
               /\ IF busSocket = "null"
                  THEN /\ promises' = [promises EXCEPT ![n].state = "rejected"]
                       /\ bSent' = <<>>
                       /\ UNCHANGED busHandlers
                  ELSE /\ busHandlers' = BusOn(busHandlers, AckName(e, n), AckHandler(n))
                       /\ promises' = [promises EXCEPT
                              ![n].state = IF SendThrows(busSocket) THEN "rejected" ELSE "pending",
                              ![n].sent = SendTransmits(busSocket)]
                       /\ bSent' = IF SendTransmits(busSocket)
                                   THEN << [event |-> e, data |-> d, ackId |-> CorrelationId(n)] >>
                                   ELSE <<>>
        /\ UNCHANGED <<busSocket, busId, busHooks, busTimers, busOrphans>>
        /\ UNCHANGED <<srvVars, fineVars>>

\* IgoClient.on
on ==
    \E e \in BusEvents, h \in BusListeners :
        /\ e \in DOMAIN busHandlers => Len(busHandlers[e]) < MaxHandlers
        /\ busHandlers' = BusOn(busHandlers, e, UserHandler(h))
        /\ BusQuiet("on")
        /\ UNCHANGED <<busSocket, busId, busHooks, busTimers, busOrphans, promises, nextCall>>

\* IgoClient.once
once ==
    \E e \in BusEvents, h \in BusListeners :
        /\ e \in DOMAIN busHandlers => Len(busHandlers[e]) < MaxHandlers
        /\ busHandlers' = BusOn(busHandlers, e, OnceHandler(h))
        /\ BusQuiet("once")
        /\ UNCHANGED <<busSocket, busId, busHooks, busTimers, busOrphans, promises, nextCall>>

\* IgoClient.off, given a function that was given to on or once
off ==
    \E e \in BusEvents, h \in BusListeners :
        /\ busHandlers' = BusOff(busHandlers, e, UserHandler(h))
        /\ BusQuiet("off")
        /\ UNCHANGED <<busSocket, busId, busHooks, busTimers, busOrphans, promises, nextCall>>

\* IgoClient.onPreConnected, onConnected, onDisconnected
onPreConnected ==
    /\ busHooks' = [busHooks EXCEPT !.pre = TRUE]
    /\ BusQuiet("onPreConnected")
    /\ UNCHANGED <<busSocket, busId, busHandlers, busTimers, busOrphans, promises, nextCall>>

onConnected ==
    /\ busHooks' = [busHooks EXCEPT !.conn = TRUE]
    /\ BusQuiet("onConnected")
    /\ UNCHANGED <<busSocket, busId, busHandlers, busTimers, busOrphans, promises, nextCall>>

onDisconnected ==
    /\ busHooks' = [busHooks EXCEPT !.disc = TRUE]
    /\ BusQuiet("onDisconnected")
    /\ UNCHANGED <<busSocket, busId, busHandlers, busTimers, busOrphans, promises, nextCall>>

\* IgoClient.connect, run by the timer onClose has set
connect ==
    /\ busTimers > 0
    /\ busTimers' = busTimers - 1
    /\ busId' = ""
    /\ busOrphans' = IF busSocket \in {"CONNECTING", "OPEN"} THEN busOrphans + 1 ELSE busOrphans
    /\ busSocket' = "CONNECTING"
    /\ BusQuiet("connect")
    /\ UNCHANGED <<busHandlers, busHooks, promises, nextCall>>

\* IgoClient.onOpen: the transport has opened
onOpen ==
    /\ busSocket = "CONNECTING"
    /\ busSocket' = "OPEN"
    /\ bLast' = BusOp("onOpen", 0, FALSE, "", NoData)
    /\ bSent' = <<>>
    /\ bCalled' = IF busHooks.pre THEN <<HookCall("preConnected")>> ELSE <<>>
    /\ UNCHANGED <<busId, busHandlers, busHooks, busTimers, busOrphans, promises, nextCall>>
    /\ UNCHANGED <<srvVars, fineVars>>

\* IgoClient.onClose: the transport has closed, or has failed to open
onClose ==
    /\ busSocket \in {"CONNECTING", "OPEN"}
    /\ busSocket' = "CLOSED"
    /\ busTimers' = SetTimeout(busTimers)
    /\ bLast' = BusOp("onClose", 0, FALSE, "", NoData)
    /\ bSent' = <<>>
    /\ bCalled' = IF busHooks.disc THEN <<HookCall("disconnected")>> ELSE <<>>
    /\ UNCHANGED <<busId, busHandlers, busHooks, busOrphans, promises, nextCall>>
    /\ UNCHANGED <<srvVars, fineVars>>

\* The server replies only to a request it has received.
Deliverable(frame) ==
    \A e \in BusEvents, n \in Calls : frame.event = AckName(e, n) => promises[n].sent

\* IgoClient.onMessage, for a frame that decodes to {event, data}
onMessageOf(frame) ==
        /\ busSocket = "OPEN"
        /\ bLast' = BusOp("onMessage", 0, FALSE, frame.event, frame.data)
        /\ bSent' = <<>>
        /\ IF frame.event = "#handshake"
           THEN IF HandshakeRejected(busId)
                THEN /\ bCalled' = <<>>
                     /\ UNCHANGED <<busId, busHandlers, promises>>
                ELSE /\ busId' = frame.data.clientId
                     /\ bCalled' = IF busHooks.conn THEN <<HookCall("connected")>> ELSE <<>>
                     /\ UNCHANGED <<busHandlers, promises>>
           ELSE IF frame.event \notin DOMAIN busHandlers
                THEN /\ bCalled' = <<>>
                     /\ UNCHANGED <<busId, busHandlers, promises>>
                ELSE LET st == RunHandlers([handlers |-> busHandlers, promises |-> promises,
                                            called |-> <<>>],
                                           frame.event, 1, frame.data)
                     IN  /\ busHandlers' = st.handlers
                         /\ promises' = st.promises
                         /\ bCalled' = st.called
                         /\ UNCHANGED busId
        /\ UNCHANGED <<busSocket, busHooks, busTimers, busOrphans, nextCall>>

\* A frame of a server arrives.
onMessage ==
    \E frame \in BusFrames :
        /\ Deliverable(frame)
        /\ onMessageOf(frame)
        /\ UNCHANGED <<srvVars, fineVars>>

\* The client bus.
NextBus ==
    \/ emit
    \/ emitWithAck
    \/ on
    \/ once
    \/ off
    \/ onPreConnected
    \/ onConnected
    \/ onDisconnected
    \/ connect
    \/ onOpen
    \/ onClose
    \/ onMessage

SpecBus == Init /\ [][NextBus]_vars

\* The timer onClose sets does fire.
LiveBus == SpecBus /\ WF_vars(connect)
\* ------------------------------------------- IgoServer.Clients, unguarded
\* Handle runs on the goroutine net/http starts for each request, wsReader on
\* the goroutine Handle starts for each Peer, and no lock guards Clients.
\* Every access below is one load or one store of the slice; slices are
\* taken by value, which leaves out the sharing of one backing array by the
\* goroutines' slices.
FirstIndex(s, c) ==
    IF c \in Range(s)
    THEN CHOOSE i \in 1..Len(s) : s[i] = c /\ \A j \in 1..(i - 1) : s[j] # c
    ELSE 0

\* A step of a goroutine that reads or writes Clients only.
Access(op, p) ==
    /\ ~panicked
    /\ last' = Op(op, p, NoRoom, NoInput)
    /\ emitted' = <<>>
    /\ written' = NoWrites
    /\ invoked' = <<>>
    /\ NoHooks
    /\ UNCHANGED <<roomClients, Events, first>>
    /\ UNCHANGED <<inbox, reads, handling, served, fate, back>>
    /\ UNCHANGED busVars

\* Handle up to `append(s.Clients, client)' reading s.Clients: the connection
\* is upgraded and the Client created.
HandleLoad ==
    \E p \in Peers :
        /\ socket[p] = "none"
        /\ \A i \in 1..Len(PeerOrder) :
               PeerOrder[i] = p => \A j \in 1..(i - 1) : Created(PeerOrder[j])
        /\ socket' = [socket EXCEPT ![p] = "open"]
        /\ loaded' = [loaded EXCEPT ![p] = Clients]
        /\ Access("HandleLoad", p)
        /\ UNCHANGED <<Clients, reader, panicked, found>>

\* Handle from the assignment `s.Clients = ...' to `go wsReader(client)'.
HandleStore ==
    \E p \in Peers :
        /\ socket[p] = "open"
        /\ reader[p] = "none"
        /\ loaded[p] # NoSlice
        /\ Clients' = Append(loaded[p], p)
        /\ loaded' = [loaded EXCEPT ![p] = NoSlice]
        /\ reader' = [reader EXCEPT ![p] = "running"]
        /\ Access("HandleStore", p)
        /\ UNCHANGED <<socket, panicked, found>>

\* wsReader: ReadMessage fails and `range client.server.Clients' runs over
\* the slice it reads once, up to the first entry that is the Client.
wsReaderRange ==
    \E p \in Peers :
        /\ reader[p] = "running"
        /\ found' = [found EXCEPT ![p] = FirstIndex(Clients, p)]
        /\ reader' = [reader EXCEPT ![p] = "ranged"]
        /\ Access("wsReaderRange", p)
        /\ UNCHANGED <<Clients, socket, panicked, loaded>>

\* wsReader: `append(Clients[:i], Clients[i+1:]...)' reads Clients again;
\* `Clients[i+1:]' panics when the slice has become shorter than i+1.  When
\* the range found nothing, the loop goes on to close the socket.
wsReaderSlice ==
    \E p \in Peers :
        /\ reader[p] = "ranged"
        /\ IF found[p] = 0
           THEN /\ reader' = [reader EXCEPT ![p] = "done"]
                /\ socket' = [socket EXCEPT ![p] = "closed"]
                /\ UNCHANGED <<loaded, panicked>>
           ELSE IF found[p] > Len(Clients)
                THEN /\ panicked' = TRUE
                     /\ UNCHANGED <<loaded, reader, socket>>
                ELSE /\ loaded' = [loaded EXCEPT ![p] =
                            SubSeq(Clients, 1, found[p] - 1)
                                \o SubSeq(Clients, found[p] + 1, Len(Clients))]
                     /\ reader' = [reader EXCEPT ![p] = "sliced"]
                     /\ UNCHANGED <<socket, panicked>>
        /\ Access("wsReaderSlice", p)
        /\ UNCHANGED <<Clients, found>>

\* wsReader: the assignment to Clients, then socket.Close() and break.
wsReaderStore ==
    \E p \in Peers :
        /\ reader[p] = "sliced"
        /\ Clients' = loaded[p]
        /\ loaded' = [loaded EXCEPT ![p] = NoSlice]
        /\ reader' = [reader EXCEPT ![p] = "done"]
        /\ socket' = [socket EXCEPT ![p] = "closed"]
        /\ Access("wsReaderStore", p)
        /\ UNCHANGED <<panicked, found>>

\* Accepts and teardowns of the Peers, interleaved access by access.
NextRace ==
    \/ HandleLoad
    \/ HandleStore
    \/ wsReaderRange
    \/ wsReaderSlice
    \/ wsReaderStore

SpecRace == Init /\ [][NextRace]_vars
\* --------------------------------------------- one connection, in order
\* The frames a client sends on its connection in this part.
Requests == [event : {"x"}, data : {[k |-> 1]}, ackId : {Nil, "abc"}]

\* (mutant) handleClientData is started on a goroutine of its own.
HandleSpawned(state) == state

\* `handleClientData(client, result)' is a plain call: the loop is in it
\* until it returns and reads nothing meanwhile.
HandleInline(state) == "handling"

\* The frames sent so far on the connections of the first i Peers.
RECURSIVE Traffic(_)
Traffic(i) ==
    IF i = 0 THEN 0
    ELSE reads[PeerOrder[i]] + Len(inbox[PeerOrder[i]]) + Traffic(i - 1)

\* A frame is sent on p's connection and queues behind the earlier ones.
Arrive ==
    \E p \in Peers, frame \in Requests :
        /\ socket[p] = "open"
        /\ reader[p] \in {"running", "handling"}
        /\ Traffic(Len(PeerOrder)) < MaxFrames
        /\ inbox' = [inbox EXCEPT ![p] = Append(@, frame)]
        /\ last' = Op("arrive", p, NoRoom, frame)
        /\ emitted' = <<>> /\ written' = NoWrites /\ invoked' = <<>>
        /\ ~panicked
        /\ NoHooks
        /\ UNCHANGED <<Clients, roomClients, Events, socket, reader, panicked, first>>
        /\ UNCHANGED <<loaded, found, reads, handling, served, fate, back>>
        /\ UNCHANGED busVars

\* wsReader: ReadMessage returns the oldest frame not yet read, it decodes,
\* and the loop enters handleClientData.
ReadMessage ==
    \E p \in Peers :
        /\ reader[p] = "running"
        /\ inbox[p] # <<>>
        /\ inbox' = [inbox EXCEPT ![p] = Tail(@)]
        /\ reads' = [reads EXCEPT ![p] = @ + 1]
        /\ handling' = [handling EXCEPT ![p] = @ \cup {[n |-> reads[p] + 1, frame |-> Head(inbox[p])]}]
        /\ reader' = [reader EXCEPT ![p] = HandleInline(@)]
        /\ last' = Op("read", p, NoRoom, Head(inbox[p]))
        /\ emitted' = <<>> /\ written' = NoWrites /\ invoked' = <<>>
        /\ ~panicked
        /\ NoHooks
        /\ UNCHANGED <<Clients, roomClients, Events, socket, panicked, first>>
        /\ UNCHANGED <<loaded, found, served, fate, back>>
        /\ UNCHANGED busVars

\* handleClientData runs for a frame that was read and returns: the listener
\* is called, the reply is written, and served[p] records whether a reply
\* was due (an ackId and a bound listener) and whether one was written.
wsReaderHandle ==
    \E p \in Peers :
        \E t \in handling[p] :
            /\ LET st == handleClientData(p,
                             [Events |-> Events[p], socket |-> socket[p],
                              written |-> <<>>, invoked |-> <<>>],
                             t.frame, 0)
                   w == [NoWrites EXCEPT ![p] = st.written]
               IN  /\ Events' = [Events EXCEPT ![p] = st.Events]
                   /\ written' = w
                   /\ first' = FirstAfter(w)
                   /\ invoked' = st.invoked
                   /\ served' = [served EXCEPT ![p] =
                          Append(@, [n |-> t.n,
                                     due |-> /\ AckIdOf(t.frame) # ""
                                             /\ Events[p][t.frame.event] # NoListener,
                                     called |-> st.invoked # <<>>,
                                     wrote |-> \E i \in 1..Len(st.written) :
                                                  st.written[i].event
                                                      = AckEvent(t.frame.event, AckIdOf(t.frame))])]
            /\ handling' = [handling EXCEPT ![p] = @ \ {t}]
            /\ reader' = [reader EXCEPT ![p] = "running"]
            /\ last' = Op("handle", p, NoRoom, t.frame)
            /\ emitted' = <<>>
            /\ ~panicked
            /\ NoHooks
            /\ UNCHANGED <<Clients, roomClients, socket, panicked>>
            /\ UNCHANGED <<loaded, found, inbox, reads, fate, back>>
            /\ UNCHANGED busVars

\* Connections whose frames queue, are read and are handled.
NextOrder ==
    \/ Handle
    \/ On
    \/ Arrive
    \/ ReadMessage
    \/ wsReaderHandle

SpecOrder == Init /\ [][NextOrder]_vars
\* ------------------------------------------- a request and its reply
\* The client bus and the Peers that serve it.  A request that emitWithAck
\* has transmitted is read once, by the receive loop of a Peer; what the
\* Peer writes travels back and reaches onMessage while the transport is
\* open.

\* The frame of emitWithAck call n as a Peer decodes it.
RequestOf(n, e, d) == [event |-> e, data |-> d, ackId |-> CorrelationId(n)]

\* wsReader, the turn in which the request of call n is read and handled.
wsReaderRequest ==
    \E n \in Calls, p \in Peers, e \in BusEvents, d \in Payloads :
        /\ ~panicked
        /\ promises[n].sent
        /\ fate[n] = "unread"
        /\ reader[p] = "running"
        /\ socket[p] = "open"
        /\ LET st == handleClientData(p,
                         [Events |-> Events[p], socket |-> socket[p],
                          written |-> <<>>, invoked |-> <<>>],
                         RequestOf(n, e, d), 0)
               w == [NoWrites EXCEPT ![p] = st.written]
           IN  /\ Events' = [Events EXCEPT ![p] = st.Events]
               /\ written' = w
               /\ first' = FirstAfter(w)
               /\ invoked' = st.invoked
               /\ back' = back \cup Range(st.written)
        /\ fate' = [fate EXCEPT ![n] = IF Events[p][e] = NoListener THEN "dropped" ELSE "handled"]
        /\ emitted' = <<>>
        /\ last' = Op("request", p, NoRoom, RequestOf(n, e, d))
        /\ NoHooks
        /\ UNCHANGED <<Clients, roomClients, socket, reader, panicked>>
        /\ UNCHANGED <<loaded, found, inbox, reads, handling, served>>
        /\ UNCHANGED busVars

\* IgoClient.onMessage for a frame a Peer has written.
onMessageReply ==
    \E frame \in back :
        /\ onMessageOf(frame)
        /\ back' = back \ {frame}
        /\ UNCHANGED srvVars
        /\ UNCHANGED <<loaded, found, inbox, reads, handling, served, fate>>

\* Requests, the Peers' registries, replies, and the client's reconnections.
NextAck ==
    \/ Handle
    \/ On
    \/ Off
    \/ emitWithAck
    \/ wsReaderRequest
    \/ onMessageReply
    \/ onOpen
    \/ onClose
    \/ connect

SpecAck == Init /\ [][NextAck]_vars

\* ================================================================ claims
Count(s, x) == Cardinality({i \in 1..Len(s) : s[i] = x})
CallsOn(p) == Cardinality({i \in 1..Len(emitted) : emitted[i].client = p})

\* C1: when a Peer's receive loop has seen a read failure and finished its
\* teardown, the Peer is in neither IgoServer.Clients nor the membership
\* list of any Room (so that no broadcast calls Emit on it any more).
C1_DisconnectCleanup ==
    last.op = "readError" =>
        /\ last.client \notin Range(Clients)
        /\ \A r \in Rooms : last.client \notin Range(roomClients[r])

\* C2: a frame with a non-empty ackId, delivered to a Peer whose listener for
\* its event returns v, makes the Peer write exactly one frame, the reply
\* {event@ack:ackId, {result: v}}, on its own connection and nothing on any
\* other; a frame whose ackId is absent or empty makes it write nothing.
C2_AckRoundTrip ==
    [][last'.op = "message" =>
        LET p == last'.client
            f == last'.frame
            l == Events[p][f.event]
        IN  /\ (f.ackId \notin {Nil, ""} /\ l # NoListener) =>
                   written'[p] = << [event |-> f.event \o "@ack:" \o f.ackId,
                                     data |-> [result |-> Result(l.h, f.data)]] >>
            /\ f.ackId \in {Nil, ""} => written'[p] = <<>>
            /\ \A q \in Peers \ {p} : written'[q] = <<>>
      ]_vars

C2_Witness ==
    /\ last.op = "message"
    /\ last.frame.ackId = "abc"
    /\ Len(written[last.client]) = 1
    /\ written[last.client][1].event = "x@ack:abc"

\* C3: a frame {e, d} received by a Peer p whose current binding for e is h
\* makes the dispatch call h(p, d) exactly once and call no listener other
\* than h; a frame whose event has no binding calls no listener.
C3_Dispatch ==
    [][last'.op = "message" =>
        LET p == last'.client
            f == last'.frame
            l == Events[p][f.event]
        IN  IF l = NoListener
            THEN invoked' = <<>>
            ELSE /\ SelectSeq(invoked', LAMBDA c : c.depth = 0)
                        = << [client |-> p, h |-> l.h, data |-> f.data, depth |-> 0] >>
                 /\ \A i \in 1..Len(invoked') :
                        invoked'[i].h = l.h /\ invoked'[i].client = p
      ]_vars

C3_Witness ==
    /\ last.op = "message"
    /\ invoked # <<>>
    /\ \E e \in EventNames :
           /\ e # last.frame.event
           /\ Events[last.client][e] # NoListener
           /\ Events[last.client][e].h # invoked[1].h

\* C4: a frame matching a Once binding calls the listener exactly once, also
\* when the listener dispatches the event again from inside itself, and
\* leaves no binding for the event; a frame whose event has no binding (as
\* after the one shot) calls nothing.
C4_Once ==
    [][last'.op = "message" =>
        LET p == last'.client
            f == last'.frame
            l == Events[p][f.event]
        IN  /\ l.once =>
                   /\ Len(invoked') = 1
                   /\ invoked'[1].h = l.h
                   /\ Events'[p][f.event] = NoListener
            /\ Events[p][f.event] = NoListener =>
                   invoked' = <<>> /\ Events'[p][f.event] = NoListener
      ]_vars

\* Only a Once binding leaves one call of "hRe" and no binding behind.
C4_Witness ==
    /\ last.op = "message"
    /\ Len(invoked) = 1
    /\ invoked[1].h = "hRe"
    /\ Events[last.client][last.frame.event] = NoListener

\* C5: Room.Emit(e, d) calls Emit(e, d) on each Peer once per entry it has in
\* the room's membership list and on no other Peer; Room.EmitExcept(p, e, d)
\* does the same for every Peer but p and never calls Emit on p.
C5_RoomBroadcast ==
    last.op \in {"RoomEmit", "RoomEmitExcept"} =>
        /\ \A q \in Peers :
               CallsOn(q) = IF last.op = "RoomEmitExcept" /\ q = last.client
                            THEN 0
                            ELSE Count(roomClients[last.room], q)
        /\ \A i \in 1..Len(emitted) :
               /\ emitted[i].event = last.frame.event
               /\ emitted[i].data = last.frame.data

C5_Witness ==
    /\ last.op = "RoomEmitExcept"
    /\ last.client \in Range(roomClients[last.room])
    /\ Len(emitted) = 1
    /\ emitted[1].client # last.client

\* C6: the first frame written to a connection is the Peer's `#handshake'
\* frame {clientId: id}, and none of the Peer's listeners is called before
\* it has been written.
C6_HandshakeFirst ==
    \A p \in Peers :
        /\ first[p] # "other"
        /\ (\E i \in 1..Len(invoked) : invoked[i].client = p) => first[p] = "handshake"

\* C7: the bus holds an identity only while it is Connected (its transport
\* open and the handshake received): `id' is empty from the close of the
\* transport on.
C7_IdentityOnlyConnected ==
    busId # "" => busSocket = "OPEN"

\* C8: every close of the transport calls the disconnected hook (when one
\* is set) and, the timer firing, is followed by a new transport being
\* opened; no closed state is without a pending reconnection.
C8_ReconnectLiveness ==
    /\ [][(bLast'.op = "onClose" /\ busHooks.disc) =>
              bCalled' = <<HookCall("disconnected")>>]_vars
    /\ [](busSocket = "CLOSED" => busTimers > 0)
    /\ (busSocket = "CLOSED") ~> (busSocket = "CONNECTING")

\* A close in the Connected state, the hook called.
C8_Witness ==
    /\ bLast.op = "onClose"
    /\ busId # ""
    /\ bCalled = <<HookCall("disconnected")>>

\* C9: while no transport is open, emit throws and sends nothing, and
\* emitWithAck rejects its promise, sends nothing and registers no handler.
C9_EmitWithoutTransport ==
    busSocket # "OPEN" =>
        /\ bLast.op = "emit" => bLast.threw /\ bSent = <<>>
        /\ bLast.op = "emitWithAck" =>
               /\ promises[bLast.n].state = "rejected"
               /\ bSent = <<>>
               /\ AckName(bLast.event, bLast.n) \notin DOMAIN busHandlers

\* C10: the arrival of the reply {e@ack:a, {result: v}} to the n-th
\* emitWithAck call resolves its promise with v and takes its one-shot
\* handler out of the registry; a later arrival of the same reply calls
\* nothing and resolves nothing.
C10_AckResolution ==
    [][\A e \in BusEvents, n \in Calls :
          (bLast'.op = "onMessage" /\ bLast'.event = AckName(e, n)) =>
              LET name == AckName(e, n)
                  registered == name \in DOMAIN busHandlers
                                    /\ AckHandler(n) \in Range(busHandlers[name])
              IN  IF registered
                  THEN /\ promises'[n].state = "resolved"
                       /\ promises'[n].value = bLast'.data.result
                       /\ promises'[n].resolves = 1
                       /\ AckHandler(n) \notin Range(busHandlers'[name])
                  ELSE /\ bCalled' = <<>>
                       /\ promises' = promises
      ]_vars

\* The reply has arrived a second time.
C10_Witness ==
    /\ bLast.op = "onMessage"
    /\ \E e \in BusEvents, n \in Calls :
           /\ bLast.event = AckName(e, n)
           /\ promises[n].state = "resolved"
           /\ promises[n].value # bLast.data.result
    /\ bCalled = <<>>

\* C11: Leave(room) by a Peer that is not in the room's membership list
\* leaves the list as it is and does not call the room's on-left callback.
C11_LeaveNonMember ==
    [][(last'.op = "Leave" /\ last'.client \notin Range(roomClients[last'.room])) =>
          /\ roomClients' = roomClients
          /\ hooked' = <<>>
      ]_vars

\* C12: a frame that decodes but has no string `event', no object `data' or
\* a non-string `ackId' is dropped: the process does not fail, no listener is
\* called, and the Peer's receive loop keeps running.
C12_MalformedNoCrash ==
    last.op = "malformed" =>
        /\ ~panicked
        /\ reader[last.client] = "running"
        /\ invoked = <<>>

\* C16: a turn of the receive loop in which the payload fails to decode calls
\* no listener and writes no frame, leaves the Peer in the Hub's live set
\* and its bindings as they are, and leaves the loop running; a loop of the
\* running server ends in a read-error turn only.
C16_DecodeFailureNonFatal ==
    [][/\ last'.op = "decodeError" =>
              /\ invoked' = <<>>
              /\ written' = NoWrites
              /\ emitted' = <<>>
              /\ Clients' = Clients
              /\ Events' = Events
              /\ socket' = socket
              /\ reader'[last'.client] = "running"
              /\ ~panicked'
       /\ \A p \in Peers :
              (reader[p] = "running" /\ reader'[p] # "running") => last'.op = "readError"
      ]_vars

\* A decode failure on a Peer that is in the live set and has a binding.
C16_Witness ==
    /\ last.op = "decodeError"
    /\ last.client \in Range(Clients)
    /\ \E e \in EventNames : Events[last.client][e] # NoListener
    /\ reader[last.client] = "running"

\* C13: a frame that is not the handshake calls every handler bound to its
\* event when it arrives, bound with on or with once, exactly once, with the
\* frame's data and in insertion order.
C13_MultiHandlerDispatch ==
    [][(/\ bLast'.op = "onMessage"
        /\ bLast'.event # "#handshake"
        /\ bLast'.event \in DOMAIN busHandlers) =>
           LET bound == busHandlers[bLast'.event]
           IN  bCalled' = [i \in 1..Len(bound) |->
                              [what |-> bound[i].h, n |-> bound[i].n, data |-> bLast'.data]]
      ]_vars

\* C18: a `#handshake' that arrives while the bus holds an identity changes
\* nothing: the identity, the registry and the promises stay, no hook and no
\* handler is called, and the transport stays open.
C18_DoubleHandshake ==
    [][(/\ bLast'.op = "onMessage"
        /\ bLast'.event = "#handshake"
        /\ busId # "") =>
           /\ busId' = busId
           /\ bCalled' = <<>>
           /\ busSocket' = "OPEN"
           /\ busHandlers' = busHandlers
           /\ promises' = promises
      ]_vars

\* A second handshake with another clientId, the connected hook being set.
C18_Witness ==
    /\ bLast.op = "onMessage"
    /\ bLast.event = "#handshake"
    /\ busId # ""
    /\ bLast.data.clientId # busId
    /\ busHooks.conn
    /\ bCalled = <<>>

LiveTransports == busOrphans + (IF busSocket \in {"CONNECTING", "OPEN"} THEN 1 ELSE 0)

\* C20: at any time at most one transport is not closed and at most one
\* reconnect timer is pending, and never both; each close of the transport
\* sets exactly one timer.
C20_SingleConnection ==
    /\ [](LiveTransports + busTimers <= 1)
    /\ [][bLast'.op = "onClose" => busTimers' = busTimers + 1]_vars

\* A reconnection: the timer has fired and a new transport is being opened.
C20_Witness ==
    /\ bLast.op = "connect"
    /\ busSocket = "CONNECTING"
    /\ LiveTransports = 1
    /\ busTimers = 0


\* C17: Join(room) appends one entry for the Peer, without deduplication;
\* Leave(room) by a member removes the Peer's first entry and keeps every
\* other entry in its order; Room.Emit calls Emit once per entry of the list,
\* so a Peer without an entry is not called and a Peer with k entries is
\* called k times.
C17_JoinLeaveMultiplicity ==
    [][LET old == roomClients[last'.room]
           new == roomClients'[last'.room]
       IN  /\ last'.op = "Join" =>
                  /\ Len(new) = Len(old) + 1
                  /\ new[Len(new)] = last'.client
                  /\ \A k \in 1..Len(old) : new[k] = old[k]
           /\ (last'.op = "Leave" /\ last'.client \in Range(old)) =>
                  \E i \in 1..Len(old) :
                      /\ old[i] = last'.client
                      /\ \A j \in 1..(i - 1) : old[j] # last'.client
                      /\ Len(new) = Len(old) - 1
                      /\ \A k \in 1..Len(new) : new[k] = IF k < i THEN old[k] ELSE old[k + 1]
           /\ last'.op = "RoomEmit" =>
                  \A q \in Peers :
                      Cardinality({i \in 1..Len(emitted') : emitted'[i].client = q})
                          = Count(old, q)
      ]_vars

\* A Peer that joined twice has left once and is still a member, next to
\* another Peer.
C17_Witness ==
    /\ last.op = "Leave"
    /\ Len(roomClients[last.room]) = 2
    /\ Count(roomClients[last.room], last.client) = 1
    /\ roomClients[last.room][1] # last.client


\* C14: under every interleaving of accepts and teardowns, a Peer whose
\* receive loop runs has exactly one entry in Clients, a Peer whose loop has
\* finished has none, and no goroutine panics.
C14_LiveSetConsistent ==
    /\ ~panicked
    /\ \A p \in Peers :
           /\ reader[p] \in {"running", "ranged"} => Count(Clients, p) = 1
           /\ reader[p] = "done" => Count(Clients, p) = 0


\* C15: on each connection the frames are handled one at a time in the order
\* they were read: when the loop is about to read, every frame read before
\* has had its listener called and (when it carries an ackId and its event
\* has a listener) its reply written; so the replies are written in the
\* order of their requests.
C15_RequestOrder ==
    \A p \in Peers :
        /\ reader[p] = "running" => (handling[p] = {} /\ Len(served[p]) = reads[p])
        /\ Cardinality(handling[p]) <= 1
        /\ \A i \in 1..Len(served[p]) :
               /\ served[p][i].n = i
               /\ served[p][i].due => (served[p][i].called /\ served[p][i].wrote)

\* Two requests with an ackId have been answered on one connection, one
\* after the other.
C15_Witness ==
    \E p \in Peers :
        /\ Len(served[p]) = 2
        /\ served[p][1].wrote
        /\ served[p][2].wrote
        /\ last.op = "handle"
        /\ last.client = p


\* C19: a request with an ackId that a Peer reads while its event has no
\* listener calls nothing and writes nothing; no reply to it is ever on its
\* way, the promise of its emitWithAck stays pending and the one-shot ack
\* handler stays registered, whatever closes and reconnections follow.
C19_NoAckWithoutHandler ==
    /\ (last.op = "request" /\ \E n \in Calls : /\ last.frame.ackId = CorrelationId(n)
                                                 /\ fate[n] = "dropped")
           => (written = NoWrites /\ invoked = <<>>)
    /\ \A n \in Calls :
           fate[n] = "dropped" =>
               /\ promises[n].state = "pending"
               /\ promises[n].resolves = 0
               /\ \E e \in BusEvents :
                      /\ AckName(e, n) \in DOMAIN busHandlers
                      /\ AckHandler(n) \in Range(busHandlers[AckName(e, n)])
               /\ \A e \in BusEvents, f \in back : f.event # AckName(e, n)

\* A dropped request whose client has since lost its transport and opened a
\* new one, while another request was answered.
C19_Witness ==
    \E n, m \in Calls :
        /\ fate[n] = "dropped"
        /\ promises[m].state = "resolved"
        /\ bLast.op = "onOpen"
        /\ busSocket = "OPEN"

====
